---- MODULE Spec2Model ----
(***************************************************************************)
(* The VideoEditor component (src/unnamed/part_001) and its render job,    *)
(* processVideo: one editor instance, the shared <video> element, the      *)
(* recorder, the audio graph and the blob handles of the merge clips.      *)
(* Time is counted in milliseconds for the timers and in whole playback    *)
(* units for the media element's position; one playback unit is the step   *)
(* of the trim controls (0.1 s).                                           *)
(***************************************************************************)
EXTENDS Integers, Sequences, FiniteSets, TLC

\* ---------------------------------------------------------------- bounds
MaxQueue == 2       \* longest merge queue explored
MaxJobs == 2        \* export triggers explored on the one editor instance
MaxChunks == 1      \* timeslice chunks the recorder delivers before stop
MaxWaitTicks == 4   \* 5-second ticks a pending load is watched for
MainDur == 3        \* duration of the main clip, in playback units
ClipDur == 1        \* duration of every merge clip, in playback units
MaxEdits == 2       \* edits of the plan (trim, caption, queue) explored

\* ------------------------------------------------------ program constants
LoadTimeoutMs == 15000    \* setTimeout(..., 15000) of the merge clip load
MinBlobSize == 1000       \* blob.size < 1000 is rejected

MinTrim == 1              \* the 0.1 of the trim inputs: one playback unit
SeekEps == 1              \* the 0.1 of playSegment's seek test
CloseEps == 1             \* handleClose: a trim within 0.1 s of the clip is unchanged
UnitMs == 100             \* one playback unit in ms
SettleMs == 500           \* delay(500) before recorder.stop()
FrameMs == 1000 \div 30   \* one frame interval of captureStream(30), in ms
videoWidth == 17          \* sourceVideo.videoWidth
videoHeight == 10         \* sourceVideo.videoHeight
TickMs == 5 * 1000        \* granularity of the load clock
ChunkBytes == 5 * 100     \* size of one non-empty recorder chunk
MainId == "m"
Clips == {"a"}            \* history clips with the main clip's aspect ratio
Captions == {"", "caption"}   \* values of the caption field
ExtraClip == "b"          \* a compatible clip the history store may drop
NumScenes == 3            \* scene prompts of the bulk tab (the form has 5)
MaxRuns == 2              \* handleGenerate invocations explored
MaxPolls == 2             \* polls counted (elapsedTime / 5); later ones count as this
MaxReads == 4             \* reference images loaded or being read
MaxEditorSaves == 1       \* onSave calls of the editor explored under App
MaxReferenceImages == 3   \* referenceImages.length >= 3 is refused
PortraitClip == "p"       \* a history clip of the other aspect ratio

VARIABLES
  \* --- React state of the editor instance
  mounted,              \* the editor is rendered by App (activeTab = 'editor')
  isLoadingSource,
  localVideoSrc,        \* "null" or "main" (the blob URL of the main clip)
  processing,
  errorMessage,         \* "null" or the message shown
  failedQueueIndices,   \* set of queue positions (0-based)
  mergeQueue,           \* sequence of clip ids
  showExitConfirmation,
  duration, trimStart, trimEnd,
  textOverlay,          \* the caption typed into the text field
  \* --- the shared media element (videoRef.current)
  el,
  \* --- App state
  videos,               \* ids of the history (allVideos)
  \* --- the running processVideo invocation (its locals and its position)
  pc,
  jobNo,                \* number of processVideo invocations that set processing
  snap,                 \* the values the invocation's closure captured
  i,                    \* loop index of the merge queue loop (0-based)
  seg,                  \* arguments of the playSegment call in progress
  rafPending,           \* a requestAnimationFrame(onFrame) callback is queued
  audioCtx,             \* "none", "suspended", "running", "closed"
  sourceNode,           \* "none", "connected", "disconnected"
  recorder,             \* "none", "recording", "inactive"
  recJob,               \* the invocation that created the recorder (0: none)
  setupLog,             \* calls the latest invocation made while preparing
  chunks,               \* sizes of the chunks pushed by ondataavailable
  tempMergeBlobs,       \* blob URLs pushed by the running invocation
  liveBlobs,            \* merge blob URLs created and not yet revoked
  loadTimer,            \* ms since the pending load promise armed its timer
  loadWait,             \* ms the pending load of the current entry has taken
  \* --- history of the run
  active,               \* processVideo invocations that have not returned
  played,               \* segments the latest job called playSegment for
  savedJobs,            \* jobs whose onstop called onSave
  onSaveCalls,          \* number of onSave calls so far
  failedJobs,           \* jobs that ended in the catch block
  closedByUser,         \* the user left the editor through handleClose
  edits,                \* edits of the plan the user has made
  isPlaying,            \* the preview is playing (React state)
  recMs,                \* ms the latest recorder recorded during its job
  canvas,               \* draw calls of the latest frame on the processing canvas
  supported,            \* MIME types MediaRecorder.isTypeSupported accepts
  mimeType,             \* "unset", or the value of getSupportedMimeType()
  mainBlobLive,         \* the main clip's blob URL exists and is not revoked
  \* --- React state of App and its running handleGenerate invocation
  activeTab,            \* "create", "bulk", "extend" or "editor"
  userApiKey,
  prompt,
  bulkPrompts,          \* the scene prompts of the bulk tab
  imageStart,           \* a start frame is loaded
  referenceImages,      \* the reference images, in order
  pendingReads,         \* files whose FileReader read is in flight
  selectedVideoToExtend,
  status,               \* GenerationStatus
  error,                \* "null" or the message shown
  outputDirHandle,      \* "null" or the directory handle
  gen,                  \* the handleGenerate invocation: closure and position
  editSave              \* saveToDisk called by handleEditorSave

vars == <<mounted, isLoadingSource, localVideoSrc, processing, errorMessage,
          failedQueueIndices, mergeQueue, showExitConfirmation, duration, textOverlay,
          trimStart, trimEnd, el, videos, pc, jobNo, snap, i, seg, rafPending,
          audioCtx, sourceNode, recorder, recJob, setupLog, chunks, tempMergeBlobs,
          liveBlobs, loadTimer, loadWait, active, played, savedJobs, onSaveCalls,
          failedJobs, closedByUser, edits, isPlaying, recMs, canvas, supported, mimeType,
          mainBlobLive, activeTab, userApiKey, prompt, bulkPrompts, imageStart,
          referenceImages, pendingReads, selectedVideoToExtend, status, error,
          outputDirHandle, gen, editSave>>

editVars == <<mergeQueue, showExitConfirmation, duration, textOverlay, trimStart, trimEnd>>
uiVars == <<mounted, isLoadingSource, localVideoSrc, processing, errorMessage,
            failedQueueIndices>>
jobVars == <<pc, jobNo, snap, i, seg, rafPending, audioCtx, sourceNode,
             recorder, recJob, setupLog, chunks, tempMergeBlobs, liveBlobs, loadTimer,
             loadWait>>
histVars == <<active, played, savedJobs, onSaveCalls, failedJobs, closedByUser>>
genVars == <<userApiKey, prompt, bulkPrompts, imageStart, referenceImages,
            pendingReads, selectedVideoToExtend, status, error,
            outputDirHandle, gen>>
envVars == <<supported, activeTab, editSave, genVars>>
obsVars == <<recMs, canvas, envVars, mimeType, mainBlobLive>>

\* --------------------------------------------------------------- helpers
\* The operation handle before the submit resolved.
NoOperation == [done |-> FALSE, error |-> FALSE, uri |-> FALSE]

RECURSIVE SumSeq(_)
SumSeq(s) == IF s = <<>> THEN 0 ELSE Head(s) + SumSeq(Tail(s))

Range(s) == {s[k] : k \in 1..Len(s)}

\* The preference list of getSupportedMimeType.
types ==
  <<"video/webm;codecs=vp9", "video/webm;codecs=vp8", "video/webm",
    "video/mp4">>

\* MIME types a platform's MediaRecorder may report as supported: those of
\* the list and two the list does not ask for.
PlatformTypes == Range(types) \cup {"video/x-matroska;codecs=avc1", "audio/webm"}

\* The platform the editor runs on: vp9 is not supported, vp8 is.
DefaultPlatform == {"video/webm;codecs=vp8", "video/webm", "audio/webm"}

\* for (const type of list) if (isTypeSupported(type)) return type; return ''.
RECURSIVE FirstSupported(_, _)
FirstSupported(list, sup) ==
  IF list = <<>> THEN ""
  ELSE IF Head(list) \in sup THEN Head(list)
  ELSE FirstSupported(Tail(list), sup)

\* Mutant: the probe stops before the last entry of the list.
getSupportedMimeTypeNoMp4(sup) ==
  FirstSupported(SubSeq(types, 1, Len(types) - 1), sup)

getSupportedMimeType(sup) == FirstSupported(types, sup)

\* Array.prototype.filter((_, index) => index !== indexToRemove), 0-based.
RemoveAt(s, idx) ==
  [k \in 1..(Len(s) - 1) |-> IF k <= idx THEN s[k] ELSE s[k + 1]]

\* What the element's src can hold: nothing, the main clip's blob URL
\* (localVideoSrc), or the blob URL job j created for queue position k.
NoSrc == [kind |-> "none", job |-> 0, idx |-> 0]
MainSrc == [kind |-> "main", job |-> 0, idx |-> 0]
BlobUrl(j, k) == [kind |-> "blob", job |-> j, idx |-> k]

\* HTMLMediaElement: a fresh element, and the element after src = x; load().
\* seeking: a seek that moved the position by more than SeekEps is pending.
ElReset(src) ==
  [src |-> src, ready |-> FALSE, time |-> 0, paused |-> TRUE,
   ended |-> FALSE, error |-> FALSE, dur |-> 0, seeking |-> FALSE]

Dist(a, b) == IF a > b THEN a - b ELSE b - a

\* videoEl.currentTime = t: the position is clamped to the resource and the
\* getter reads the new position at once, while the seek itself completes
\* later ('seeked'); an element without a loaded resource keeps position 0.
ElSeek(e, t) ==
  LET tt == IF ~e.ready THEN 0 ELSE IF t > e.dur THEN e.dur ELSE t
  IN [e EXCEPT !.time = tt, !.ended = (e.ready /\ tt >= e.dur),
               !.seeking = (e.seeking \/ Dist(tt, e.time) > SeekEps)]

\* videoEl.play(): playback that has ended restarts from the beginning.
ElPlay(e) ==
  [e EXCEPT !.paused = FALSE, !.ended = FALSE,
            !.time = IF e.time >= e.dur THEN 0 ELSE e.time]

\* Removal of the element from the document pauses it (unmount of the editor).
ElRemoved(e) == [e EXCEPT !.paused = TRUE]

\* width = (w % 2 === 0) ? w : w - 1: the canvas gets even dimensions.
ForceEven(n) == IF n % 2 = 0 THEN n ELSE n - 1
width == ForceEven(videoWidth)
height == ForceEven(videoHeight)

\* One call on the 2D context: what is drawn and where.
DrawOp(name, text, x, y) == [op |-> name, text |-> text, x |-> x, y |-> y]

\* Mutant: the text is filled first and stroked over.
renderFrameFillFirst(text, w, h) ==
  <<DrawOp("drawImage", "", 0, 0)>> \o
  (IF text # ""
     THEN <<DrawOp("fillText", text, w \div 2, h - h \div 10),
            DrawOp("strokeText", text, w \div 2, h - h \div 10)>>
     ELSE <<>>)

\* renderFrame(ctx, source, text, width, height): the calls it makes on ctx,
\* in order; x = width / 2, y = height - height * 0.1.
renderFrame(text, w, h) ==
  <<DrawOp("drawImage", "", 0, 0)>> \o
  (IF text # ""
     THEN <<DrawOp("strokeText", text, w \div 2, h - h \div 10),
            DrawOp("fillText", text, w \div 2, h - h \div 10)>>
     ELSE <<>>)

\* Labels of the segments: the trimmed main clip and the queue positions.
MainSeg == [kind |-> "main", idx |-> 0]
QueueSeg(k) == [kind |-> "queue", idx |-> k]
NoSeg == [start |-> 0, end |-> 0, text |-> "",
          label |-> [kind |-> "none", idx |-> 0]]

\* bulkPrompts as App creates it: every scene prompt empty.
NoPrompts == [k \in 1..NumScenes |-> ""]

\* No handleGenerate invocation is running.
IdleGen ==
  [pc |-> "idle", tab |-> "create", scenes |-> <<>>, k |-> 0, dir |-> "null",
   input |-> FALSE, extend |-> FALSE,
   op |-> NoOperation, polls |-> 0, raw |-> "none", attempts |-> <<>>,
   failed |-> {}, added |-> 0, save |-> "none", runs |-> 0, made |-> 0]

\* App while it shows the editor on a clip of the history: the form is
\* untouched, no output directory is chosen, no generation is running.
AppEditing ==
  /\ activeTab = "editor"
  /\ userApiKey = "key"
  /\ prompt = ""
  /\ bulkPrompts = NoPrompts
  /\ imageStart = FALSE
  /\ referenceImages = <<>>
  /\ pendingReads = <<>>
  /\ selectedVideoToExtend = "null"
  /\ status = "completed"
  /\ error = "null"
  /\ outputDirHandle = "null"
  /\ gen = IdleGen
  /\ editSave = "none"

\* A fresh editor instance.
EditorFresh ==
  /\ isLoadingSource = TRUE
  /\ localVideoSrc = "null"
  /\ processing = FALSE
  /\ errorMessage = "null"
  /\ failedQueueIndices = {}
  /\ mergeQueue = <<>>
  /\ showExitConfirmation = FALSE
  /\ duration = 0
  /\ textOverlay = ""
  /\ trimStart = 0
  /\ trimEnd = 0
  /\ el = ElReset(NoSrc)
  /\ pc = "idle"
  /\ jobNo = 0
  /\ snap = [trimStart |-> 0, trimEnd |-> 0, textOverlay |-> "",
             mergeQueue |-> <<>>, allVideos |-> {}]
  /\ i = 0
  /\ seg = NoSeg
  /\ rafPending = FALSE
  /\ audioCtx = "none"
  /\ sourceNode = "none"
  /\ recorder = "none"
  /\ recJob = 0
  /\ setupLog = <<>>
  /\ chunks = <<>>
  /\ tempMergeBlobs = <<>>
  /\ liveBlobs = {}
  /\ loadTimer = 0
  /\ loadWait = 0
  /\ active = 0
  /\ played = <<>>
  /\ savedJobs = {}
  /\ onSaveCalls = 0
  /\ failedJobs = {}
  /\ closedByUser = FALSE
  /\ edits = 0
  /\ isPlaying = FALSE
  /\ recMs = 0
  /\ canvas = <<>>
  /\ mainBlobLive = FALSE

\* The state after the editor is mounted on a history that holds `history`.
InitWith(history) ==
  /\ mounted = TRUE
  /\ videos = history
  /\ AppEditing
  /\ EditorFresh

Init ==
  /\ InitWith({MainId} \cup Clips \cup {PortraitClip})
  /\ supported = DefaultPlatform
  /\ mimeType = "unset"

\* ------------------------------------------- loading of the main source
\* useEffect loadSource: the fetch of video.url resolved while mounted and
\* fetchVideoAsBlobUrl created the blob URL; the second effect then assigns
\* it to the element.
LoadSourceOk ==
  /\ mounted /\ isLoadingSource
  /\ localVideoSrc' = "main"
  /\ isLoadingSource' = FALSE
  /\ el' = ElReset(MainSrc)
  /\ mainBlobLive' = TRUE
  /\ UNCHANGED <<mounted, processing, errorMessage, failedQueueIndices>>
  /\ UNCHANGED <<editVars, videos, jobVars, histVars>>
  /\ UNCHANGED <<edits, isPlaying, recMs, canvas, envVars, mimeType>>

LoadSourceFail ==
  /\ mounted /\ isLoadingSource
  /\ errorMessage' = "sourceLoadFailed"
  /\ isLoadingSource' = FALSE
  /\ UNCHANGED <<mounted, localVideoSrc, processing, failedQueueIndices>>
  /\ UNCHANGED <<editVars, el, videos, jobVars, histVars>>
  /\ UNCHANGED <<edits, isPlaying, obsVars>>

\* Mutant: every metadata event sets the plan's duration and end.
SetDurationAlways(dur) ==
  IF mounted
    THEN duration' = dur /\ trimEnd' = dur
    ELSE UNCHANGED <<duration, trimEnd>>

\* The body of handleLoadedMetadata, the element's onLoadedMetadata prop:
\* if (duration === 0) { setDuration(dur); setTrimEnd(dur) }.
SetInitialDuration(dur) ==
  IF mounted /\ duration = 0
    THEN duration' = dur /\ trimEnd' = dur
    ELSE UNCHANGED <<duration, trimEnd>>

\* The element finished loading the main source (first load, or the reload
\* after a job restored the source); handleLoadedMetadata runs while mounted.
handleLoadedMetadata ==
  /\ el.src = MainSrc /\ ~el.ready
  /\ el' = [el EXCEPT !.ready = TRUE, !.dur = MainDur]
  /\ SetInitialDuration(MainDur)
  /\ UNCHANGED <<mergeQueue, showExitConfirmation, trimStart, textOverlay>>
  /\ UNCHANGED <<uiVars, videos, jobVars, histVars>>
  /\ UNCHANGED <<edits, isPlaying, obsVars>>

\* ----------------------------------------------------------- queue edits
UiReady == mounted /\ ~isLoadingSource

\* One more edit of the plan by the user.
UserEdit ==
  /\ edits < MaxEdits
  /\ edits' = edits + 1
  /\ UNCHANGED <<isPlaying, obsVars>>

\* The exit confirmation modal covers the whole editor while it is shown.
UiFree == UiReady /\ ~showExitConfirmation

\* v.aspectRatio of a history clip; the main clip is a landscape one, and an
\* edited video gets the aspect ratio of the clip it was made from.
aspectRatio(v) == IF v = PortraitClip THEN "9:16" ELSE "16:9"

\* Mutant: every other clip of the history is offered.
compatibleVideosAnyRatio == {v \in videos : v # MainId}

\* allVideos.filter(v => v.id !== video.id && v.aspectRatio === video.aspectRatio)
compatibleVideos ==
  {v \in videos : v # MainId /\ aspectRatio(v) = aspectRatio(MainId)}

\* The select's options are compatibleVideos; the chosen id is appended.
handleAddToQueue ==
  /\ UiFree
  /\ UserEdit
  /\ Len(mergeQueue) < MaxQueue
  /\ \E id \in compatibleVideos :
       mergeQueue' = Append(mergeQueue, id)
  /\ failedQueueIndices' = {}
  /\ UNCHANGED <<mounted, isLoadingSource, localVideoSrc, processing,
                 errorMessage>>
  /\ UNCHANGED <<showExitConfirmation, duration, textOverlay, trimStart, trimEnd>>
  /\ UNCHANGED <<el, videos, jobVars, histVars>>

handleRemoveFromQueue ==
  /\ UiFree
  /\ UserEdit
  /\ \E idx \in 0..(Len(mergeQueue) - 1) :
       mergeQueue' = RemoveAt(mergeQueue, idx)
  /\ failedQueueIndices' = {}
  /\ errorMessage' = "null"
  /\ UNCHANGED <<mounted, isLoadingSource, localVideoSrc, processing>>
  /\ UNCHANGED <<showExitConfirmation, duration, textOverlay, trimStart, trimEnd>>
  /\ UNCHANGED <<el, videos, jobVars, histVars>>

\* The close button of the error box: onClick={() => setErrorMessage(null)}.
\* The box lies under the processing overlay while a job runs.
DismissError ==
  /\ UiFree /\ ~processing
  /\ errorMessage # "null"
  /\ errorMessage' = "null"
  /\ UNCHANGED <<mounted, isLoadingSource, localVideoSrc, processing,
                 failedQueueIndices>>
  /\ UNCHANGED <<editVars, el, videos, jobVars, histVars>>
  /\ UNCHANGED <<edits, isPlaying, obsVars>>

\* togglePlay, the play button of the preview; the processing overlay covers
\* the button while a job runs.
togglePlay ==
  /\ UiFree /\ ~processing
  /\ edits < MaxEdits
  /\ edits' = edits + 1
  /\ IF isPlaying
       THEN el' = [el EXCEPT !.paused = TRUE]
       ELSE el' = ElPlay(IF el.time >= trimEnd THEN ElSeek(el, trimStart)
                         ELSE el)
  /\ isPlaying' = ~isPlaying
  /\ UNCHANGED <<uiVars, editVars, videos, jobVars, histVars>>
  /\ UNCHANGED obsVars

\* handleTimeUpdate at the end of the trim range of a playing preview: the
\* element is paused and sent back to trimStart.
handleTimeUpdate ==
  /\ mounted /\ ~isLoadingSource
  /\ isPlaying /\ el.time >= trimEnd
  /\ el' = ElSeek([el EXCEPT !.paused = TRUE], trimStart)
  /\ isPlaying' = FALSE
  /\ UNCHANGED <<uiVars, editVars, videos, jobVars, histVars>>
  /\ UNCHANGED <<edits, obsVars>>

\* The end slider: onChange={(e) => setTrimEnd(Math.max(value, trimStart))},
\* min 0, max duration.
TrimEndSlider ==
  /\ UiFree
  /\ UserEdit
  /\ \E val \in 0..duration :
       /\ trimEnd # (IF val > trimStart THEN val ELSE trimStart)
       /\ trimEnd' = IF val > trimStart THEN val ELSE trimStart
  /\ UNCHANGED <<mergeQueue, showExitConfirmation, duration, textOverlay, trimStart>>
  /\ UNCHANGED <<uiVars, el, videos, jobVars, histVars>>

\* The caption field: onChange={(e) => setTextOverlay(e.target.value)}.
handleTextChange ==
  /\ UiFree
  /\ UserEdit
  /\ \E text \in Captions \ {textOverlay} : textOverlay' = text
  /\ UNCHANGED <<mergeQueue, showExitConfirmation, duration, trimStart,
                 trimEnd>>
  /\ UNCHANGED <<uiVars, el, videos, jobVars, histVars>>

\* Values typed into the numeric trim inputs (an emptied field reads 0).
TrimTyped == 0..(duration + 1)

Max2(a, b) == IF a > b THEN a ELSE b
Min2(a, b) == IF a < b THEN a ELSE b

\* The start input: val = Math.min(value, trimEnd - 0.1); the state and the
\* element's position are set to Math.max(0, val).
TrimStartInput ==
  /\ UiFree
  /\ UserEdit
  /\ \E typed \in TrimTyped :
       LET val == Max2(0, Min2(typed, trimEnd - MinTrim))
       IN /\ trimStart' = val
          /\ el' = ElSeek(el, val)
  /\ UNCHANGED <<mergeQueue, showExitConfirmation, duration, textOverlay, trimEnd>>
  /\ UNCHANGED <<uiVars, videos, jobVars, histVars>>

\* The end input: val = Math.max(value, trimStart + 0.1);
\* setTrimEnd(Math.min(duration, val)).
TrimEndInput ==
  /\ UiFree
  /\ UserEdit
  /\ \E typed \in TrimTyped :
       trimEnd' = Min2(duration, Max2(typed, trimStart + MinTrim))
  /\ UNCHANGED <<mergeQueue, showExitConfirmation, duration, textOverlay, trimStart>>
  /\ UNCHANGED <<uiVars, el, videos, jobVars, histVars>>

\* The length input: newEnd = trimStart + value, kept when newEnd <= duration.
TrimLengthInput ==
  /\ UiFree
  /\ UserEdit
  /\ \E typed \in TrimTyped :
       trimEnd' = IF trimStart + typed <= duration THEN trimStart + typed
                  ELSE trimEnd
  /\ UNCHANGED <<mergeQueue, showExitConfirmation, duration, textOverlay, trimStart>>
  /\ UNCHANGED <<uiVars, el, videos, jobVars, histVars>>

\* The start slider (min 0, max duration): setTrimStart(val) and
\* videoRef.current.currentTime = val.
TrimStartSlider ==
  /\ UiFree
  /\ UserEdit
  /\ \E val \in 0..duration :
       /\ trimStart' = val
       /\ el' = ElSeek(el, val)
  /\ UNCHANGED <<mergeQueue, showExitConfirmation, duration, textOverlay, trimEnd>>
  /\ UNCHANGED <<uiVars, videos, jobVars, histVars>>

\* ------------------------------------------------------------------ close
\* The localVideoSrc the cleanup of the loadSource effect reads: the effect
\* has [video] as dependencies and ran once, in the render of the mount, so
\* its closure holds the state of that render.
CleanupSrc == "null"

\* The cleanup of the loadSource effect, run when the editor unmounts:
\* if (localVideoSrc) URL.revokeObjectURL(localVideoSrc).
LoadSourceCleanup ==
  mainBlobLive' = IF CleanupSrc # "null" THEN FALSE ELSE mainBlobLive

\* App's onClose: setActiveTab('create') unmounts the editor.
onClose ==
  /\ LoadSourceCleanup
  /\ mounted' = FALSE
  /\ activeTab' = "create"
  /\ el' = ElRemoved(el)
  /\ closedByUser' = TRUE

handleClose ==
  /\ UiFree
  /\ LET isTrimChanged == /\ duration > 0
                          /\ \/ trimStart > CloseEps
                             \/ Dist(trimEnd, duration) > CloseEps
         isTextChanged == textOverlay # ""
         isMergeChanged == Len(mergeQueue) > 0
     IN IF isTrimChanged \/ isTextChanged \/ isMergeChanged
          THEN /\ showExitConfirmation' = TRUE
               /\ UNCHANGED <<mounted, el, closedByUser, mainBlobLive, activeTab>>
          ELSE /\ onClose
               /\ UNCHANGED showExitConfirmation
  /\ UNCHANGED <<isLoadingSource, localVideoSrc, processing, errorMessage,
                 failedQueueIndices>>
  /\ UNCHANGED <<mergeQueue, duration, textOverlay, trimStart, trimEnd>>
  /\ UNCHANGED <<videos, jobVars, active, played, savedJobs, onSaveCalls, failedJobs>>
  /\ UNCHANGED <<edits, isPlaying, recMs, canvas, supported, editSave, genVars, mimeType>>

\* The modal's "Thoát" button.
ConfirmExit ==
  /\ UiReady /\ showExitConfirmation
  /\ showExitConfirmation' = FALSE
  /\ onClose
  /\ UNCHANGED <<isLoadingSource, localVideoSrc, processing, errorMessage,
                 failedQueueIndices>>
  /\ UNCHANGED <<mergeQueue, duration, textOverlay, trimStart, trimEnd>>
  /\ UNCHANGED <<videos, jobVars, active, played, savedJobs, onSaveCalls, failedJobs>>
  /\ UNCHANGED <<edits, isPlaying, recMs, canvas, supported, editSave, genVars, mimeType>>

\* The modal's "Quay lại" button.
CancelExit ==
  /\ UiReady /\ showExitConfirmation
  /\ showExitConfirmation' = FALSE
  /\ UNCHANGED <<mergeQueue, duration, textOverlay, trimStart, trimEnd>>
  /\ UNCHANGED <<uiVars, el, videos, jobVars, histVars>>
  /\ UNCHANGED <<edits, isPlaying, obsVars>>

\* ------------------------------------------------------------ processVideo
\* Mutant: the export button is never disabled.
ExportEnabledNoGuard == UiFree

\* The export button: disabled={processing}.
ExportEnabled == UiFree /\ ~processing

\* The merge blobs of the running invocation are revoked.
RevokeTemp == liveBlobs \ Range(tempMergeBlobs)

\* Mutant: the catch block forgets to revoke the merge blobs.
CatchNoRevoke(fq, msg, j, act) ==
  /\ processing' = FALSE
  /\ errorMessage' = msg
  /\ failedQueueIndices' = fq
  /\ audioCtx' = "closed"
  /\ liveBlobs' = liveBlobs
  /\ el' = ElReset(MainSrc)
  /\ pc' = "failed"
  /\ active' = act - 1
  /\ failedJobs' = failedJobs \cup {j}

\* Mutant: the catch block leaves the element on the source it had.
CatchNoRestore(fq, msg, j, act) ==
  /\ processing' = FALSE
  /\ errorMessage' = msg
  /\ failedQueueIndices' = fq
  /\ audioCtx' = "closed"
  /\ liveBlobs' = RevokeTemp
  /\ el' = el
  /\ pc' = "failed"
  /\ active' = act - 1
  /\ failedJobs' = failedJobs \cup {j}

\* catch (e) of processVideo: fq is the failed-index set after the setters
\* queued before the throw, j the invocation, act the invocations in flight.
Catch(fq, msg, j, act) ==
  /\ processing' = FALSE
  /\ errorMessage' = msg
  /\ failedQueueIndices' = fq
  /\ audioCtx' = "closed"
  /\ liveBlobs' = RevokeTemp
  /\ el' = ElReset(MainSrc)
  /\ pc' = "failed"
  /\ active' = act - 1
  /\ failedJobs' = failedJobs \cup {j}

\* startPlayback of playSegment up to await videoEl.play().
startPlayback(e, start) == ElPlay(ElSeek(e, start))

\* playSegment(videoEl, start, end, text) up to its first wait: either the
\* 'seeked' listener is registered, or startPlayback runs up to await play().
playSegment(e, start, end, text, label) ==
  /\ seg' = [start |-> start, end |-> end, text |-> text, label |-> label]
  /\ played' = IF label = MainSeg THEN <<label>> ELSE Append(played, label)
  /\ rafPending' = FALSE
  /\ IF Dist(e.time, start) > SeekEps
       THEN /\ el' = ElSeek(e, start)
            /\ pc' = "seeking"
       ELSE /\ el' = startPlayback(e, start)
            /\ pc' = "playStart"

\* Mutant: the capture stream is created before the first frame is drawn.
SetupOrderCaptureFirst ==
  <<"captureStream", "drawImage", "createMediaElementSource",
    "recorderStart", "playSegment">>

\* The calls of lines 310-460 in program order: the initial frame, the canvas
\* capture, the tap of the element, the recorder, the main segment.
SetupOrder ==
  <<"drawImage", "captureStream", "createMediaElementSource",
    "recorderStart", "playSegment">>

\* Position in SetupOrder of the call that throws on a tapped element.
TapAt == CHOOSE k \in 1..Len(SetupOrder) :
           SetupOrder[k] = "createMediaElementSource"

\* Lines 310-460: canvas, audio graph, recorder, then the main segment.
\* createMediaElementSource throws when the element already feeds a node.
Setup(e0, em, fq, j, act) ==
  IF ~e0.ready \/ sourceNode # "none"
    THEN /\ Catch(fq, "processingFailed", j, act)
         /\ setupLog' = IF ~e0.ready THEN <<>>
                        ELSE SubSeq(SetupOrder, 1, TapAt - 1)
         /\ canvas' = IF ~e0.ready THEN canvas
                       ELSE <<DrawOp("drawImage", "", 0, 0)>>
         /\ UNCHANGED <<sourceNode, recorder, recJob, chunks, seg, played,
                        rafPending, recMs, mimeType>>
    ELSE /\ processing' = TRUE
         /\ setupLog' = SetupOrder
         /\ canvas' = <<DrawOp("drawImage", "", 0, 0)>>
         /\ mimeType' = getSupportedMimeType(supported)
         /\ recMs' = 0
         /\ errorMessage' = em
         /\ failedQueueIndices' = fq
         /\ audioCtx' = "running"
         /\ sourceNode' = "connected"
         /\ recorder' = "recording"
         /\ recJob' = j
         /\ chunks' = <<>>
         /\ playSegment(ElSeek(e0, snap'.trimStart), snap'.trimStart,
                        snap'.trimEnd, snap'.textOverlay, MainSeg)
         /\ active' = act
         /\ UNCHANGED <<liveBlobs, failedJobs>>

\* Mutant: a new job keeps the flags of the job before it.
JobStartFlagsKept == failedQueueIndices

\* setFailedQueueIndices(new Set()) at the start of processVideo.
JobStartFlags == {}

\* The click on the export button, up to the first await.
processVideo ==
  /\ ExportEnabled
  /\ jobNo < MaxJobs
  /\ IF localVideoSrc = "null"
       THEN /\ errorMessage' = "notReady"
            /\ UNCHANGED <<mounted, isLoadingSource, localVideoSrc, processing,
                           failedQueueIndices>>
            /\ UNCHANGED <<editVars, el, videos, jobVars, histVars>>
            /\ UNCHANGED <<recMs, canvas, mimeType, isPlaying>>
       ELSE /\ jobNo' = jobNo + 1
            /\ isPlaying' = FALSE
            /\ snap' = [trimStart |-> trimStart, trimEnd |-> trimEnd,
                        textOverlay |-> textOverlay,
                        mergeQueue |-> mergeQueue, allVideos |-> videos]
            /\ i' = 0
            /\ tempMergeBlobs' = <<>>
            /\ \E suspended \in BOOLEAN :
                 IF suspended
                   THEN /\ processing' = TRUE
                        /\ errorMessage' = "null"
                        /\ failedQueueIndices' = JobStartFlags
                        /\ el' = [el EXCEPT !.paused = TRUE]
                        /\ audioCtx' = "suspended"
                        /\ pc' = "resuming"
                        /\ active' = active + 1
                        /\ setupLog' = <<>>
                        /\ UNCHANGED <<seg, rafPending, sourceNode, recorder,
                                       recJob, chunks, liveBlobs, played,
                                       failedJobs, recMs, canvas, mimeType>>
                   ELSE Setup([el EXCEPT !.paused = TRUE], "null", JobStartFlags,
                              jobNo + 1, active + 1)
            /\ UNCHANGED <<mounted, isLoadingSource, localVideoSrc>>
            /\ UNCHANGED <<editVars, videos, loadTimer, loadWait, savedJobs, onSaveCalls,
                           closedByUser>>
  /\ UNCHANGED <<edits, envVars, mainBlobLive>>

\* await audioCtx.resume() settled.
AudioResumed ==
  /\ pc = "resuming"
  /\ snap' = snap
  /\ Setup(el, errorMessage, failedQueueIndices, jobNo, active)
  /\ UNCHANGED <<mounted, isLoadingSource, localVideoSrc>>
  /\ UNCHANGED <<editVars, videos, jobNo, i, tempMergeBlobs, loadTimer,
                 loadWait, savedJobs, onSaveCalls, closedByUser>>
  /\ UNCHANGED <<edits, isPlaying, envVars, mainBlobLive>>

\* ------------------------------------------------------- segment playback
\* Mutant: the loop takes every queue position, found or not.
NextIdxNoLookup(k) == IF k < Len(snap.mergeQueue) THEN k ELSE Len(snap.mergeQueue)

\* for (let i = ...): the first queue position >= k whose id allVideos.find
\* resolves; Len(queue) when there is none.
NextIdx(k) ==
  LET q == snap.mergeQueue
      found == {j \in k..(Len(q) - 1) : q[j + 1] \in snap.allVideos}
  IN IF found = {} THEN Len(q)
     ELSE CHOOSE j \in found : \A h \in found : j <= h

\* Mutant: after the last segment the recorder is stopped at once, without
\* the settle delay.
AfterSegmentNoSettle(k) ==
  LET j == NextIdx(k)
  IN /\ i' = j
     /\ IF j < Len(snap.mergeQueue)
          THEN pc' = "fetching"
          ELSE pc' = "stopping"
     /\ loadTimer' = 0
     /\ loadWait' = 0

\* The continuation of processVideo after the segment's promise resolved:
\* the next queue entry is fetched, or the settle delay starts.
AfterSegment(k) ==
  LET j == NextIdx(k)
  IN /\ i' = j
     /\ IF j < Len(snap.mergeQueue)
          THEN pc' = "fetching"
          ELSE pc' = "settling"
     /\ loadTimer' = 0
     /\ loadWait' = 0

\* requestAnimationFrame(onFrame): the segment's promise stays pending.
RequestFrame ==
  /\ rafPending' = TRUE
  /\ pc' = "playing"
  /\ UNCHANGED <<i, loadTimer, loadWait>>

\* Mutant: the end of the range resolves the segment without pausing.
onFrameNoPause(e, k) ==
  IF e.time >= seg.end
    THEN /\ el' = e
         /\ rafPending' = FALSE
         /\ AfterSegment(k)
         /\ UNCHANGED canvas
    ELSE /\ el' = e
         /\ canvas' = renderFrame(seg.text, width, height)
         /\ RequestFrame

\* onFrame, the requestAnimationFrame callback of playSegment; k is the queue
\* position the loop continues from when the segment resolves.
onFrame(e, k) ==
  IF e.time >= seg.end
    THEN /\ el' = [e EXCEPT !.paused = TRUE]
         /\ rafPending' = FALSE
         /\ AfterSegment(k)
         /\ UNCHANGED canvas
    ELSE /\ el' = e
         /\ canvas' = renderFrame(seg.text, width, height)
         /\ IF ~e.paused /\ ~e.ended
              THEN RequestFrame
              ELSE IF e.time < seg.end
                     THEN RequestFrame
                     ELSE /\ rafPending' = FALSE
                          /\ AfterSegment(k)

NextAfter == IF seg.label = MainSeg THEN 0 ELSE i + 1

\* await videoEl.play() resolved: startPlayback calls onFrame() at once.
PlayResolved ==
  /\ pc = "playStart"
  /\ ~el.paused /\ ~el.error
  /\ onFrame(el, NextAfter)
  /\ UNCHANGED <<uiVars, editVars, videos, jobNo, snap, seg, audioCtx,
                 sourceNode, recorder, recJob, setupLog, chunks, tempMergeBlobs,
                 liveBlobs, active, played, savedJobs, onSaveCalls,
                 failedJobs, closedByUser>>
  /\ UNCHANGED <<edits, isPlaying, recMs, envVars, mainBlobLive, mimeType>>

\* A queued animation frame runs onFrame.
FrameTick ==
  /\ rafPending
  /\ onFrame(el, NextAfter)
  /\ UNCHANGED <<uiVars, editVars, videos, jobNo, snap, seg, audioCtx,
                 sourceNode, recorder, recJob, setupLog, chunks, tempMergeBlobs,
                 liveBlobs, active, played, savedJobs, onSaveCalls,
                 failedJobs, closedByUser>>
  /\ UNCHANGED <<edits, isPlaying, recMs, envVars, mainBlobLive, mimeType>>

\* 'seeked': the pending seek has completed. A playSegment waiting for it
\* (onSeeked) goes on with startPlayback.
Seeked ==
  /\ el.seeking
  /\ LET e == [el EXCEPT !.seeking = FALSE]
     IN IF pc = "seeking"
          THEN /\ el' = startPlayback(e, seg.start)
               /\ pc' = "playStart"
          ELSE /\ el' = e
               /\ UNCHANGED pc
  /\ UNCHANGED <<uiVars, editVars, videos, jobNo, snap, i, seg, rafPending,
                 audioCtx, sourceNode, recorder, recJob, setupLog, chunks,
                 tempMergeBlobs, liveBlobs, loadTimer, loadWait, histVars>>
  /\ UNCHANGED <<edits, isPlaying, obsVars>>

\* The element's playback position advances while it plays and no seek is
\* pending; reaching the end of the resource ends playback and pauses the
\* element.
PlaybackAdvance ==
  /\ pc \in {"playing", "idle", "done", "failed"}
  /\ ~el.paused /\ ~el.ended /\ ~el.error /\ el.time < el.dur
  /\ ~el.seeking
  /\ el' = [el EXCEPT !.time = el.time + 1,
                      !.ended = (el.time + 1 >= el.dur),
                      !.paused = (el.time + 1 >= el.dur)]
  /\ UNCHANGED <<uiVars, editVars, videos, jobVars, histVars>>
  /\ recMs' = IF pc = "playing" /\ recorder = "recording"
                THEN recMs + UnitMs ELSE recMs
  /\ UNCHANGED <<edits, isPlaying, canvas, envVars, mainBlobLive, mimeType>>

\* The element reports a media error in the middle of playback: the position
\* stops advancing; paused and ended keep their values.
MediaError ==
  /\ pc = "playing"
  /\ ~el.paused /\ ~el.ended /\ ~el.error
  /\ el' = [el EXCEPT !.error = TRUE]
  /\ UNCHANGED <<uiVars, editVars, videos, jobVars, histVars>>
  /\ UNCHANGED <<edits, isPlaying, obsVars>>

\* Mutant: the inner catch flags the entry's 1-based number.
QueueItemFailedOffByOne ==
  /\ Catch(failedQueueIndices \cup {i + 1}, "queueItemFailed", jobNo, active)
  /\ UNCHANGED <<mounted, isLoadingSource, localVideoSrc>>
  /\ loadTimer' = 0
  /\ loadWait' = 0
  /\ UNCHANGED <<editVars, videos, jobNo, snap, i, seg, rafPending, sourceNode,
                 recorder, recJob, setupLog, chunks, tempMergeBlobs, played, savedJobs, onSaveCalls,
                 closedByUser>>

\* The inner catch of the queue loop (setFailedQueueIndices adds i, the error
\* is thrown again) followed by the outer catch.
QueueItemFailed ==
  /\ Catch(failedQueueIndices \cup {i}, "queueItemFailed", jobNo, active)
  /\ UNCHANGED <<mounted, isLoadingSource, localVideoSrc>>
  /\ loadTimer' = 0
  /\ loadWait' = 0
  /\ UNCHANGED <<editVars, videos, jobNo, snap, i, seg, rafPending, sourceNode,
                 recorder, recJob, setupLog, chunks, tempMergeBlobs, played, savedJobs, onSaveCalls,
                 closedByUser>>

\* Mutant: a rejected play() of the main segment flags queue position 0.
PlayRejectedFlagsQueue ==
  /\ pc = "playStart"
  /\ IF seg.label = MainSeg
       THEN /\ Catch(failedQueueIndices \cup {0}, "processingFailed", jobNo, active)
            /\ UNCHANGED <<mounted, isLoadingSource, localVideoSrc>>
            /\ UNCHANGED <<editVars, videos, jobNo, snap, i, seg, rafPending,
                           sourceNode, recorder, recJob, setupLog, chunks,
                           tempMergeBlobs, loadTimer, loadWait, played,
                           savedJobs, onSaveCalls, closedByUser>>
       ELSE QueueItemFailed
  /\ UNCHANGED <<edits, isPlaying, obsVars>>

\* await videoEl.play() rejected: startPlayback rejects the segment's promise.
PlayRejected ==
  /\ pc = "playStart"
  /\ IF seg.label = MainSeg
       THEN /\ Catch(failedQueueIndices, "processingFailed", jobNo, active)
            /\ UNCHANGED <<mounted, isLoadingSource, localVideoSrc>>
            /\ UNCHANGED <<editVars, videos, jobNo, snap, i, seg, rafPending,
                           sourceNode, recorder, recJob, setupLog, chunks,
                           tempMergeBlobs, loadTimer, loadWait, played,
                           savedJobs, onSaveCalls, closedByUser>>
       ELSE QueueItemFailed
  /\ UNCHANGED <<edits, isPlaying, obsVars>>

\* ------------------------------------------------- loading a merge clip
\* fetchVideoAsBlobUrl resolved: the blob URL is pushed, the load promise
\* arms its timer and binds the blob to the element (src = ...; load()).
FetchOk ==
  /\ pc = "fetching"
  /\ LET url == BlobUrl(jobNo, i)
     IN /\ tempMergeBlobs' = Append(tempMergeBlobs, url)
        /\ liveBlobs' = liveBlobs \cup {url}
        /\ el' = ElReset(url)
  /\ loadTimer' = 0
  /\ pc' = "loading"
  /\ UNCHANGED <<uiVars, editVars, videos, jobNo, snap, i, seg, rafPending,
                 audioCtx, sourceNode, recorder, recJob, setupLog, chunks, loadWait,
                 histVars>>
  /\ UNCHANGED <<edits, isPlaying, obsVars>>

\* fetch rejected, the response was not ok, or response.blob() failed.
FetchFail ==
  /\ pc = "fetching"
  /\ QueueItemFailed
  /\ UNCHANGED <<edits, isPlaying, obsVars>>

\* Five more seconds pass while the current entry is being fetched or loaded;
\* the load timer fires before time passes its deadline.
Tick ==
  /\ pc \in {"fetching", "loading"}
  /\ loadWait < MaxWaitTicks * TickMs
  /\ pc = "loading" => loadTimer < LoadTimeoutMs
  /\ loadWait' = loadWait + TickMs
  /\ loadTimer' = IF pc = "loading" THEN loadTimer + TickMs ELSE loadTimer
  /\ UNCHANGED <<uiVars, editVars, el, videos, pc, jobNo, snap, i, seg,
                 rafPending, audioCtx, sourceNode, recorder, recJob, setupLog, chunks,
                 tempMergeBlobs, liveBlobs, histVars>>
  /\ recMs' = IF recorder = "recording" THEN recMs + TickMs ELSE recMs
  /\ UNCHANGED <<edits, isPlaying, canvas, envVars, mainBlobLive, mimeType>>

\* Mutant: the queue clip is played with the job's caption.
LoadedDataWithCaption ==
  /\ pc = "loading"
  /\ LET e == [el EXCEPT !.ready = TRUE, !.dur = ClipDur]
     IN /\ SetInitialDuration(e.dur)
        /\ playSegment(e, 0, e.dur, snap.textOverlay, QueueSeg(i))
  /\ loadTimer' = 0
  /\ loadWait' = 0
  /\ UNCHANGED <<mergeQueue, showExitConfirmation, textOverlay, trimStart>>
  /\ UNCHANGED <<uiVars, videos, jobNo, snap, i, audioCtx,
                 sourceNode, recorder, recJob, setupLog, chunks, tempMergeBlobs,
                 liveBlobs, active, savedJobs, onSaveCalls, failedJobs, closedByUser>>
  /\ UNCHANGED <<edits, isPlaying, obsVars>>

\* 'loadedmetadata', then 'loadeddata' of the queue clip: the element's
\* onLoadedMetadata prop runs handleLoadedMetadata, the timer is cleared,
\* loadHandler resolves, and the loop body goes on to
\* playSegment(sourceVideo, 0, sourceVideo.duration, '').
LoadedData ==
  /\ pc = "loading"
  /\ LET e == [el EXCEPT !.ready = TRUE, !.dur = ClipDur]
     IN /\ SetInitialDuration(e.dur)
        /\ playSegment(e, 0, e.dur, "", QueueSeg(i))
  /\ loadTimer' = 0
  /\ loadWait' = 0
  /\ UNCHANGED <<mergeQueue, showExitConfirmation, textOverlay, trimStart>>
  /\ UNCHANGED <<uiVars, videos, jobNo, snap, i, audioCtx,
                 sourceNode, recorder, recJob, setupLog, chunks, tempMergeBlobs,
                 liveBlobs, active, savedJobs, onSaveCalls, failedJobs, closedByUser>>
  /\ UNCHANGED <<edits, isPlaying, obsVars>>

\* 'error' on the element while the clip loads.
LoadError ==
  /\ pc = "loading"
  /\ QueueItemFailed
  /\ UNCHANGED <<edits, isPlaying, obsVars>>

\* The 15 s timer of the load promise fires.
LoadTimeout ==
  /\ pc = "loading"
  /\ loadTimer >= LoadTimeoutMs
  /\ QueueItemFailed
  /\ UNCHANGED <<edits, isPlaying, obsVars>>

\* -------------------------------------------------------------- recorder
\* recorder.ondataavailable of a timeslice: empty data is dropped.
DataAvailable ==
  /\ recorder = "recording"
  /\ Len(chunks) < MaxChunks
  /\ \E size \in {0, ChunkBytes} :
       chunks' = IF size > 0 THEN Append(chunks, size) ELSE chunks
  /\ UNCHANGED <<uiVars, editVars, el, videos, pc, jobNo, snap, i, seg,
                 rafPending, audioCtx, sourceNode, recorder, recJob, setupLog,
                 tempMergeBlobs, liveBlobs, loadTimer, loadWait, histVars>>
  /\ UNCHANGED <<edits, isPlaying, obsVars>>

\* await delay(500) elapsed: recorder.stop(), which throws on a recorder
\* that is no longer recording.
SettleElapsed ==
  /\ pc = "settling"
  /\ IF recorder = "recording"
       THEN /\ recorder' = "inactive"
            /\ pc' = "stopping"
            /\ UNCHANGED <<uiVars, el, audioCtx, liveBlobs, active,
                           failedJobs>>
       ELSE /\ Catch(failedQueueIndices, "processingFailed", jobNo, active)
            /\ UNCHANGED <<mounted, isLoadingSource, localVideoSrc, recorder>>
  /\ UNCHANGED <<editVars, videos, jobNo, snap, i, seg, rafPending, sourceNode,
                 recJob, setupLog, chunks, tempMergeBlobs, loadTimer, loadWait, played,
                 savedJobs, onSaveCalls, closedByUser>>
  /\ recMs' = IF recorder = "recording" THEN recMs + SettleMs ELSE recMs
  /\ UNCHANGED <<edits, isPlaying, canvas, envVars, mainBlobLive, mimeType>>

\* App.handleEditorSave up to its first await: the edited video joins the
\* history, the editor is unmounted, and saveToDisk starts when an output
\* directory is set.
handleEditorSave ==
  /\ videos' = videos \cup {"edited"}
  /\ LoadSourceCleanup
  /\ mounted' = FALSE
  /\ activeTab' = "create"
  /\ editSave' = IF outputDirHandle # "null" THEN "fetch" ELSE editSave
  /\ onSaveCalls' = onSaveCalls + 1

\* Mutant: onstop checks only that something was recorded.
OutputRejectedEmptyOnly(all) == Len(all) = 0

\* recorder.onstop rejects when nothing was recorded or the blob is too small.
OutputRejected(all) == Len(all) = 0 \/ SumSeq(all) < MinBlobSize

\* recorder.onstop over the recorded chunks; when onSave was called the
\* promise resolves and processVideo runs to its end (lines 527-540).
OnStop(all) ==
  IF OutputRejected(all)
    THEN /\ Catch(failedQueueIndices,
                  IF Len(all) = 0 THEN "noData" ELSE "tooSmall", jobNo, active)
         /\ UNCHANGED <<mounted, videos, sourceNode, savedJobs, onSaveCalls,
                        mainBlobLive, activeTab, editSave>>
    ELSE /\ handleEditorSave
         /\ savedJobs' = savedJobs \cup {recJob}
         /\ processing' = FALSE
         /\ sourceNode' = "disconnected"
         /\ audioCtx' = "closed"
         /\ liveBlobs' = RevokeTemp
         /\ el' = ElReset(MainSrc)
         /\ pc' = "done"
         /\ active' = active - 1
         /\ UNCHANGED <<errorMessage, failedQueueIndices, failedJobs>>

\* The recorder's last dataavailable, then its stop event.
RecorderStopped ==
  /\ pc = "stopping"
  /\ \E size \in {0, ChunkBytes} :
       LET all == IF size > 0 THEN Append(chunks, size) ELSE chunks
       IN /\ chunks' = all
          /\ OnStop(all)
  /\ UNCHANGED <<isLoadingSource, localVideoSrc>>
  /\ UNCHANGED <<editVars, jobNo, snap, i, seg, rafPending, recorder, recJob, setupLog,
                 tempMergeBlobs, loadTimer, loadWait, played, closedByUser>>
  /\ UNCHANGED <<edits, isPlaying, recMs, canvas, supported, genVars, mimeType>>

\* The recorder fails while recording: it becomes inactive and fires error
\* (onerror rejects recordingFinished), a last dataavailable, and stop; the
\* onstop handler runs as ever, its resolve or reject finding the promise
\* settled. The invocation itself is waiting elsewhere and goes on.
RecorderError ==
  /\ recorder = "recording"
  /\ recorder' = "inactive"
  /\ \E size \in {0, ChunkBytes} :
       LET all == IF size > 0 THEN Append(chunks, size) ELSE chunks
       IN /\ chunks' = all
          /\ IF OutputRejected(all)
               THEN UNCHANGED <<mounted, videos, el, savedJobs, onSaveCalls,
                                mainBlobLive, activeTab, editSave>>
               ELSE /\ handleEditorSave
                    /\ el' = ElRemoved(el)
                    /\ savedJobs' = savedJobs \cup {recJob}
  /\ UNCHANGED <<isLoadingSource, localVideoSrc, processing, errorMessage,
                 failedQueueIndices>>
  /\ UNCHANGED <<editVars, pc, jobNo, snap, i, seg, rafPending, audioCtx,
                 sourceNode, recJob, setupLog, tempMergeBlobs, liveBlobs, loadTimer,
                 loadWait, active, played, failedJobs, closedByUser>>
  /\ UNCHANGED <<edits, isPlaying, recMs, canvas, supported, genVars, mimeType>>

\* ------------------------------------------------------------------- spec
Next ==
  \/ LoadSourceOk
  \/ LoadSourceFail
  \/ handleLoadedMetadata
  \/ handleAddToQueue
  \/ handleRemoveFromQueue
  \/ TrimEndSlider
  \/ TrimStartSlider
  \/ TrimStartInput
  \/ TrimEndInput
  \/ TrimLengthInput
  \/ handleTextChange
  \/ DismissError
  \/ togglePlay
  \/ handleTimeUpdate
  \/ handleClose
  \/ ConfirmExit
  \/ CancelExit
  \/ processVideo
  \/ AudioResumed
  \/ PlayResolved
  \/ PlayRejected
  \/ FrameTick
  \/ Seeked
  \/ PlaybackAdvance
  \/ MediaError
  \/ FetchOk
  \/ FetchFail
  \/ Tick
  \/ LoadedData
  \/ LoadError
  \/ LoadTimeout
  \/ DataAvailable
  \/ SettleElapsed
  \/ RecorderStopped
  \/ RecorderError

Spec == Init /\ [][Next]_vars

\* The editor with its collaborator, the clip history store, as environment:
\* the store holds one more compatible clip and may drop it, so that the
\* allVideos prop of a later render lacks an id the queue still holds.
ClipRemoved ==
  /\ ExtraClip \in videos
  /\ videos' = videos \ {ExtraClip}
  /\ UNCHANGED <<uiVars, editVars, el, jobVars, histVars, edits, isPlaying, obsVars>>

EditorInit ==
  /\ InitWith({MainId} \cup Clips \cup {ExtraClip, PortraitClip})
  /\ supported = DefaultPlatform
  /\ mimeType = "unset"

EditorNext == Next \/ ClipRemoved

EditorSpec == EditorInit /\ [][EditorNext]_vars

\* The recorder's format selection on its own (lines 349-362), over every
\* capability set a platform may have.
MimeInit ==
  /\ InitWith({MainId} \cup Clips \cup {PortraitClip})
  /\ supported \in SUBSET PlatformTypes
  /\ mimeType = "unset"

SelectMime ==
  /\ mimeType = "unset"
  /\ mimeType' = getSupportedMimeType(supported)
  /\ UNCHANGED <<uiVars, editVars, el, videos, jobVars, histVars, edits,
                 isPlaying, recMs, canvas, envVars, mainBlobLive>>

MimeSpec == MimeInit /\ [][SelectMime]_vars

\* ------------------------------------------------------ App: generation
\* Values of a text field: empty, blank, and a description.
PromptValues == {"", " ", "scene"}
KeyValues == {"", " ", "key"}

\* !p.trim()
Blank(p) == p \in {"", " "}

\* The scene prompts the bulk form is explored with.
ScenePlans ==
  {NoPrompts, <<"scene", "", "scene">>, <<" ", "scene", "scene">>}

\* Ids of generated videos (Date.now().toString()), in order of creation.
GenIds == <<"g1", "g2", "g3", "g4", "g5", "g6">>

\* What an operation handle received from the API can say.
Operations ==
  {NoOperation} \cup
  {[done |-> TRUE, error |-> e, uri |-> u] : e, u \in BOOLEAN}

\* Ways saveToDisk can fail: the fetch rejects, the response is not ok, the
\* directory refuses with NotAllowedError, with another error whose message
\* names the permission, or with any other error.
FetchFailures == {"network", "status"}
WriteFailures == {"NotAllowedError", "permissionMessage", "otherError"}
SaveFailures == FetchFailures \cup WriteFailures

\* err.name === 'NotAllowedError' || err.message.includes('permission')
IsPermissionError(kind) == kind \in {"NotAllowedError", "permissionMessage"}

RECURSIVE Ascending(_, _)
Ascending(S, from) ==
  IF from > NumScenes THEN <<>>
  ELSE (IF from \in S THEN <<from>> ELSE <<>>) \o Ascending(S, from + 1)

\* bulkPrompts.map((p, i) => p.trim() ? i : -1).filter(i => i !== -1),
\* 1-based.
activeIndices(prompts) ==
  Ascending({k \in 1..NumScenes : ~Blank(prompts[k])}, 1)

\* The React state a step of handleGenerate reads and writes, as a record,
\* and the step's writes.
Cur ==
  [gen |-> gen, status |-> status, error |-> error, videos |-> videos,
   dir |-> outputDirHandle]

Commit(s) ==
  /\ gen' = s.gen
  /\ status' = s.status
  /\ error' = s.error
  /\ videos' = s.videos
  /\ outputDirHandle' = s.dir

\* setStatus(st) at the end of handleGenerate.
Finish(s, st) == [s EXCEPT !.status = st, !.gen.pc = "idle"]

\* The outer catch of handleGenerate.
RunFailed(s, msg) == [Finish(s, "error") EXCEPT !.error = msg]

\* generateSingle -> generateVideoRaw up to await ai.models.generateVideos;
\* scene is the prompt's number (0 outside bulk mode).
Submit(s, scene) ==
  [s EXCEPT !.gen.pc = "submit", !.gen.op = NoOperation, !.gen.polls = 0,
            !.gen.raw = "none", !.gen.save = "none",
            !.gen.attempts = Append(@, scene)]

\* The bulk loop's next iteration, or the end of the try block.
NextScene(s) ==
  IF s.gen.k < Len(s.gen.scenes)
    THEN Submit([s EXCEPT !.gen.k = @ + 1], s.gen.scenes[s.gen.k + 1])
    ELSE Finish(s, "completed")

\* Mutant: a failed scene ends the bulk run.
SceneFailedStops(s) == RunFailed(s, "sceneFailed")

\* The inner catch of the bulk loop: setError, then the next scene.
SceneFailed(s) ==
  NextScene([s EXCEPT !.error = "sceneFailed",
                      !.gen.failed = @ \cup {s.gen.scenes[s.gen.k]}])

\* generateVideoRaw threw (its catch maps the error and throws again).
RawThrown(s) ==
  LET t == [s EXCEPT !.gen.raw = "thrown"]
  IN IF t.gen.tab = "bulk" THEN SceneFailed(t)
     ELSE RunFailed(t, "generationFailed")

\* setVideos(prev => [newVideo, ...prev]), then the loop or the end.
VideoReturned(s) ==
  LET t == [s EXCEPT !.videos = @ \cup {GenIds[s.gen.made + 1]},
                     !.gen.made = @ + 1, !.gen.added = @ + 1]
  IN IF t.gen.tab = "bulk" THEN NextScene(t) ELSE Finish(t, "completed")

\* Mutant: the result is returned whatever the operation says.
RawOutcomeUnchecked(op) == "returned"

\* generateVideoRaw after the polling loop: an operation error or a missing
\* URI throws, otherwise the result is returned.
RawOutcome(op) ==
  IF op.error THEN "thrown"
  ELSE IF ~op.uri THEN "thrown"
  ELSE "returned"

\* generateVideoRaw returned; generateSingle saves when a directory is set.
RawReturned(s) ==
  LET t == [s EXCEPT !.gen.raw = "returned"]
  IN IF t.gen.dir # "null"
       THEN [t EXCEPT !.gen.pc = "saveFetch", !.gen.save = "pending"]
       ELSE VideoReturned(t)

\* while (!operation.done) { await delay(5000); ... } and what follows it,
\* on the operation just received.
AfterOperation(s) ==
  IF ~s.gen.op.done THEN [s EXCEPT !.gen.pc = "delay"]
  ELSE IF RawOutcome(s.gen.op) = "thrown" THEN RawThrown(s)
  ELSE RawReturned(s)

\* Mutant: the catch of saveToDisk throws the error again.
SaveFailedThrows(s, kind) ==
  LET t == [s EXCEPT !.gen.save = kind]
  IN IF t.gen.tab = "bulk" THEN SceneFailed(t)
     ELSE RunFailed(t, "generationFailed")

\* The catch of saveToDisk: the error is reported, a permission error
\* clears the stored handle, and generateSingle goes on to return the video.
SaveFailed(s, kind) ==
  VideoReturned([s EXCEPT !.error = "saveFailed",
                          !.dir = IF IsPermissionError(kind) THEN "null" ELSE @,
                          !.gen.save = kind])

\* The editor is not shown: the form, the settings and the history are.
MainInterface == activeTab # "editor"

appForm == <<userApiKey, prompt, bulkPrompts, imageStart, referenceImages,
             pendingReads, selectedVideoToExtend>>
editorRest == <<isLoadingSource, localVideoSrc, processing, errorMessage,
                failedQueueIndices, editVars, el, jobVars, active, played,
                savedJobs, failedJobs, edits, isPlaying, recMs, canvas,
                supported, mimeType>>
editorIdle == <<mounted, closedByUser, onSaveCalls, mainBlobLive, editorRest>>

\* Mutant: the submit button is never disabled.
SubmitEnabledAlways == TRUE

\* The submit button: disabled={status === 'generating'}.
SubmitEnabled == status # "generating"

\* The click on the submit button, up to setError(null): the closure of the
\* invocation holds the form and the directory handle of this render.
handleGenerate ==
  /\ MainInterface
  /\ SubmitEnabled
  /\ gen.runs < MaxRuns
  /\ IF Blank(userApiKey)
       THEN /\ error' = "apiKeyMissing"
            /\ UNCHANGED <<status, gen>>
       ELSE /\ status' = "generating"
            /\ error' = "null"
            /\ gen' = [gen EXCEPT
                  !.pc = "started", !.tab = activeTab,
                  !.scenes = activeIndices(bulkPrompts), !.k = 0,
                  !.dir = outputDirHandle,
                  !.input = (~Blank(prompt) \/ imageStart
                               \/ Len(referenceImages) > 0),
                  !.extend = (selectedVideoToExtend # "null"),
                  !.attempts = <<>>, !.failed = {}, !.added = 0,
                  !.runs = @ + 1]
  /\ UNCHANGED <<videos, outputDirHandle, activeTab, editSave, appForm, editorIdle>>

\* The try block of handleGenerate up to its first await.
RunBody ==
  /\ gen.pc = "started"
  /\ Commit(IF gen.tab = "bulk"
              THEN IF gen.scenes = <<>> THEN RunFailed(Cur, "noScenes")
                   ELSE NextScene(Cur)
            ELSE IF ~gen.input THEN RunFailed(Cur, "noInput")
            ELSE IF gen.tab = "extend" /\ ~gen.extend
              THEN RunFailed(Cur, "noVideoToExtend")
            ELSE Submit(Cur, 0))
  /\ UNCHANGED <<activeTab, editSave, appForm, editorIdle>>

\* await ai.models.generateVideos(...) settled.
SubmitSettled ==
  /\ gen.pc = "submit"
  /\ \/ Commit(RawThrown(Cur))
     \/ \E op \in Operations : Commit(AfterOperation([Cur EXCEPT !.gen.op = op]))
  /\ UNCHANGED <<activeTab, editSave, appForm, editorIdle>>

\* await delay(5000) elapsed: elapsedTime += 5 and the poll is sent.
DelayElapsed ==
  /\ gen.pc = "delay"
  /\ gen' = [gen EXCEPT !.pc = "polling",
                        !.polls = IF @ < MaxPolls THEN @ + 1 ELSE @]
  /\ UNCHANGED <<status, error, videos, outputDirHandle>>
  /\ UNCHANGED <<activeTab, editSave, appForm, editorIdle>>

\* await ai.operations.getVideosOperation(...) settled.
PollSettled ==
  /\ gen.pc = "polling"
  /\ \/ Commit(RawThrown(Cur))
     \/ \E op \in Operations : Commit(AfterOperation([Cur EXCEPT !.gen.op = op]))
  /\ UNCHANGED <<activeTab, editSave, appForm, editorIdle>>

\* saveToDisk of generateSingle: fetch(url) and response.blob() settled.
SaveFetchSettled ==
  /\ gen.pc = "saveFetch"
  /\ \/ Commit([Cur EXCEPT !.gen.pc = "saveWrite"])
     \/ \E kind \in FetchFailures : Commit(SaveFailed(Cur, kind))
  /\ UNCHANGED <<activeTab, editSave, appForm, editorIdle>>

\* getFileHandle, createWritable, write and close settled.
SaveWriteSettled ==
  /\ gen.pc = "saveWrite"
  /\ \/ Commit(VideoReturned([Cur EXCEPT !.gen.save = "saved"]))
     \/ \E kind \in WriteFailures : Commit(SaveFailed(Cur, kind))
  /\ UNCHANGED <<activeTab, editSave, appForm, editorIdle>>

\* saveToDisk of handleEditorSave: the same two waits and the same catch;
\* the edited video is in the history already.
EditSaveFetchSettled ==
  /\ editSave = "fetch"
  /\ \/ /\ editSave' = "write"
        /\ UNCHANGED <<error, outputDirHandle>>
     \/ \E kind \in FetchFailures :
          /\ editSave' = kind
          /\ error' = "saveFailed"
          /\ outputDirHandle' =
               IF IsPermissionError(kind) THEN "null" ELSE outputDirHandle
  /\ UNCHANGED <<status, gen, videos, activeTab, appForm, editorIdle>>

EditSaveWriteSettled ==
  /\ editSave = "write"
  /\ \/ /\ editSave' = "saved"
        /\ UNCHANGED <<error, outputDirHandle>>
     \/ \E kind \in WriteFailures :
          /\ editSave' = kind
          /\ error' = "saveFailed"
          /\ outputDirHandle' =
               IF IsPermissionError(kind) THEN "null" ELSE outputDirHandle
  /\ UNCHANGED <<status, gen, videos, activeTab, appForm, editorIdle>>

\* The tab buttons of the main interface.
setActiveTab ==
  /\ MainInterface
  /\ \E t \in {"create", "bulk", "extend"} :
       /\ t # activeTab
       /\ activeTab' = t
  /\ UNCHANGED <<status, error, gen, videos, outputDirHandle, editSave,
                 appForm, editorIdle>>

\* "Mở rộng" on a video of the history.
onExtendRequest ==
  /\ MainInterface
  /\ videos # {}
  /\ selectedVideoToExtend' = "video"
  /\ imageStart' = FALSE
  /\ referenceImages' = <<>>
  /\ activeTab' = "extend"
  /\ prompt' = "scene"
  /\ UNCHANGED <<userApiKey, bulkPrompts, pendingReads>>
  /\ UNCHANGED <<status, error, gen, videos, outputDirHandle, editSave,
                 editorIdle>>

\* "Chỉnh sửa" on a video of the history: the editor is mounted on it.
onEditRequest ==
  /\ MainInterface
  /\ videos # {}
  /\ onSaveCalls < MaxEditorSaves
  /\ mounted' = TRUE
  /\ activeTab' = "editor"
  /\ UNCHANGED <<status, error, gen, videos, outputDirHandle, editSave,
                 appForm>>
  /\ UNCHANGED <<closedByUser, onSaveCalls, mainBlobLive, editorRest>>

\* The editor calls onClose (its close button, or the confirmed exit).
EditorClosed ==
  /\ mounted
  /\ onClose
  /\ UNCHANGED <<status, error, gen, videos, outputDirHandle, editSave,
                 appForm>>
  /\ UNCHANGED <<onSaveCalls, isLoadingSource, localVideoSrc, processing,
                 errorMessage, failedQueueIndices, editVars, jobVars, active,
                 played, savedJobs, failedJobs, edits, isPlaying, recMs,
                 canvas, supported, mimeType>>

\* The editor's render job calls onSave(url).
EditorSaved ==
  /\ mounted
  /\ handleEditorSave
  /\ UNCHANGED <<status, error, gen, outputDirHandle, appForm>>
  /\ UNCHANGED <<closedByUser, editorRest>>

\* The folder button of the settings: the picker was cancelled or is not
\* there, or the directory was picked with or without write permission.
handleSelectOutputFolder ==
  /\ MainInterface
  /\ \E outcome \in {"granted", "denied", "unsupported"} :
       /\ outputDirHandle' =
            IF outcome = "granted" THEN "dir" ELSE outputDirHandle
       /\ error' = IF outcome = "granted" THEN "null"
                   ELSE IF outcome = "denied" THEN "needWritePermission"
                   ELSE "pickerUnsupported"
       /\ outputDirHandle' # outputDirHandle \/ error' # error
  /\ UNCHANGED <<status, gen, videos, activeTab, editSave, appForm, editorIdle>>

\* Files the user may pick as reference image.
ImageFiles == {"imgA", "imgB"}
PickedFiles == ImageFiles \cup {"notes.txt"}

\* The add button is rendered while referenceImages.length < 3.
AddButtonShown == Len(referenceImages) < MaxReferenceImages

\* onChange of the file input behind the add button: the list is checked
\* now, the image is appended when its read completes.
handleReferenceImageAdd ==
  /\ MainInterface
  /\ activeTab \in {"create", "bulk"}
  /\ AddButtonShown
  /\ Len(referenceImages) + Len(pendingReads) < MaxReads
  /\ \E file \in PickedFiles :
       IF Len(referenceImages) >= MaxReferenceImages
         THEN /\ error' = "maxReferenceImages"
              /\ UNCHANGED pendingReads
         ELSE IF file \notin ImageFiles
           THEN /\ error' = "notAnImage"
                /\ error # "notAnImage"
                /\ UNCHANGED pendingReads
         ELSE /\ pendingReads' = Append(pendingReads, file)
              /\ UNCHANGED error
  /\ UNCHANGED <<userApiKey, prompt, bulkPrompts, imageStart, referenceImages,
                 selectedVideoToExtend>>
  /\ UNCHANGED <<status, gen, videos, outputDirHandle, activeTab, editSave,
                 editorIdle>>

\* reader.onloadend of one of the reads in flight:
\* setReferenceImages(prev => [...prev, base64Data]).
ReferenceImageRead ==
  /\ \E k \in 1..Len(pendingReads) :
       /\ referenceImages' = Append(referenceImages, pendingReads[k])
       /\ pendingReads' = RemoveAt(pendingReads, k - 1)
  /\ UNCHANGED <<userApiKey, prompt, bulkPrompts, imageStart,
                 selectedVideoToExtend>>
  /\ UNCHANGED <<status, error, gen, videos, outputDirHandle, activeTab,
                 editSave, editorIdle>>

removeReferenceImage ==
  /\ MainInterface
  /\ activeTab \in {"create", "bulk"}
  /\ \E k \in 1..Len(referenceImages) :
       referenceImages' = RemoveAt(referenceImages, k - 1)
  /\ UNCHANGED <<userApiKey, prompt, bulkPrompts, imageStart, pendingReads,
                 selectedVideoToExtend>>
  /\ UNCHANGED <<status, error, gen, videos, outputDirHandle, activeTab,
                 editSave, editorIdle>>

\* App as it starts: the create tab, no video, no editor.
AppStart ==
  /\ mounted = FALSE
  /\ videos = {}
  /\ EditorFresh
  /\ supported = DefaultPlatform
  /\ mimeType = "unset"
  /\ activeTab = "create"
  /\ referenceImages = <<>>
  /\ pendingReads = <<>>
  /\ selectedVideoToExtend = "null"
  /\ status = "idle"
  /\ error = "null"
  /\ outputDirHandle = "null"
  /\ gen = IdleGen
  /\ editSave = "none"

\* The prompt and the start frame the create form is explored with.
FormInputs == {<<"", FALSE>>, <<" ", TRUE>>, <<"scene", FALSE>>}

\* The generation form as the user has filled it in.
GenInit ==
  /\ AppStart
  /\ userApiKey \in KeyValues
  /\ bulkPrompts \in ScenePlans
  /\ \E f \in FormInputs : prompt = f[1] /\ imageStart = f[2]

\* Generation with no output directory chosen.
GenNext ==
  \/ handleGenerate
  \/ RunBody
  \/ SubmitSettled
  \/ DelayElapsed
  \/ PollSettled
  \/ setActiveTab
  \/ onExtendRequest

GenSpec == GenInit /\ [][GenNext]_vars

\* Generation and the editor's save with an output directory: the form
\* holds a key, two scenes and a prompt.
SaveInit ==
  /\ AppStart
  /\ userApiKey = "key"
  /\ bulkPrompts = <<"scene", "", "scene">>
  /\ prompt = "scene"
  /\ imageStart = FALSE

SaveNext ==
  \/ handleGenerate
  \/ RunBody
  \/ SubmitSettled
  \/ DelayElapsed
  \/ PollSettled
  \/ SaveFetchSettled
  \/ SaveWriteSettled
  \/ EditSaveFetchSettled
  \/ EditSaveWriteSettled
  \/ setActiveTab
  \/ onEditRequest
  \/ EditorClosed
  \/ EditorSaved
  \/ handleSelectOutputFolder

SaveSpec == SaveInit /\ [][SaveNext]_vars

\* What the event loop owes a handleGenerate invocation: its continuation,
\* settled requests and the elapsed delay. What a request answers is not
\* owed.
GenFairness ==
  /\ WF_vars(RunBody)
  /\ WF_vars(SubmitSettled)
  /\ WF_vars(DelayElapsed)
  /\ WF_vars(PollSettled)

GenFairSpec == GenSpec /\ GenFairness

\* The reference image inputs of the create and bulk tabs on their own.
RefInit ==
  /\ AppStart
  /\ userApiKey = "key"
  /\ bulkPrompts = NoPrompts
  /\ prompt = ""
  /\ imageStart = FALSE

RefNext ==
  \/ handleReferenceImageAdd
  \/ ReferenceImageRead
  \/ removeReferenceImage

RefSpec == RefInit /\ [][RefNext]_vars

\* The steps the browser's event loop owes the job: settled promises, fired
\* timers, media events, animation frames and playback of a playing element.
\* A media error, the recorder's timeslice data and the user's actions are
\* owed to nobody.
Fairness ==
  /\ WF_vars(AudioResumed)
  /\ WF_vars(PlayResolved \/ PlayRejected)
  /\ WF_vars(FrameTick)
  /\ WF_vars(Seeked)
  /\ WF_vars(PlaybackAdvance)
  /\ WF_vars(FetchOk \/ FetchFail)
  /\ WF_vars(Tick)
  /\ WF_vars(LoadedData \/ LoadError \/ LoadTimeout)
  /\ WF_vars(SettleElapsed)
  /\ WF_vars(RecorderStopped)

FairSpec == Spec /\ Fairness

\* ----------------------------------------------------------------- claims
ActivePcs == {"resuming", "playStart", "seeking", "playing", "fetching",
              "loading", "settling", "stopping"}
Terminal == pc \in {"done", "failed"}

TypeOK ==
  /\ pc \in ActivePcs \cup {"idle", "done", "failed"}
  /\ active \in 0..1
  /\ recorder \in {"none", "recording", "inactive"}
  /\ recJob \in 0..MaxJobs
  /\ (recorder = "none") = (recJob = 0)

\* C1: when the fetch or the load of the queue entry at position i fails,
\* the job ends failed with failedQueueIndices = {i}, and from then on the
\* failed job fetches, loads and plays nothing more.
C1_LoadFailureFlagsEntry ==
  [][/\ (pc \in {"fetching", "loading"} /\ pc' = "failed")
        => /\ failedQueueIndices' = {i}
           /\ ~processing'
           /\ played' = played /\ tempMergeBlobs' = tempMergeBlobs
     /\ (pc = "failed" /\ jobNo' = jobNo)
        => /\ pc' = "failed"
           /\ played' = played /\ tempMergeBlobs' = tempMergeBlobs
           /\ i' = i]_vars

\* C1 witness: the first of two queue entries failed to load; the second
\* was never fetched or played.
C1_Witness ==
  /\ pc = "failed"
  /\ failedQueueIndices = {0}
  /\ Len(snap.mergeQueue) = 2
  /\ played = <<MainSeg>>
  /\ Len(tempMergeBlobs) = 1

\* C2: a job that ended in failure never had, and never gets, its output
\* handed to onSave; the history only ever gains the output of a job that
\* did not fail.
C2_AllOrNothing ==
  /\ failedJobs \cap savedJobs = {}
  /\ ("edited" \in videos) => (savedJobs # {})
  /\ Terminal /\ savedJobs = {} => "edited" \notin videos

\* C3: the segments of a job are played in order, the main clip first and
\* then the queue positions 0, 1, 2, ...; an animation-frame loop runs only
\* while its segment is being played, and while the next entry is fetched or
\* loaded, or the job settles, the element is paused.
C3_SegmentsInSequence ==
  /\ \A k \in 1..Len(played) :
       played[k] = IF k = 1 THEN MainSeg ELSE QueueSeg(k - 2)
  /\ rafPending => pc = "playing"
  /\ pc \in {"fetching", "loading", "settling", "stopping"}
       => ~rafPending /\ el.paused
  /\ pc \in {"fetching", "loading"} => played[Len(played)] # QueueSeg(i)
  /\ pc \in {"playStart", "playing"} /\ Len(played) > 1
       => played[Len(played)] = QueueSeg(i)

\* C3 witness: the second queue entry is playing after the main clip and the
\* first entry.
C3_Witness ==
  /\ pc = "playing"
  /\ played = <<MainSeg, QueueSeg(0), QueueSeg(1)>>

\* C4: at most one processVideo invocation is in flight, and the export
\* button is enabled only when none is.
C4_SingleJob ==
  /\ active <= 1
  /\ (active = 1) <=> (pc \in ActivePcs)
  /\ ExportEnabled => active = 0

\* C4 witness: a job is in flight in a mounted editor that could still start
\* another one.
C4_Witness ==
  /\ mounted /\ processing
  /\ active = 1
  /\ pc = "fetching"
  /\ jobNo < MaxJobs

\* C8: when a job has ended, on success or failure, none of the merge blob
\* URLs created by a job is left unrevoked.
C8_BlobsRevoked ==
  ~(pc \in ActivePcs) => liveBlobs = {}

\* C8 witness: a job created two merge blobs and then failed.
C8_Witness ==
  /\ pc = "failed"
  /\ Len(tempMergeBlobs) = 2
  /\ liveBlobs = {}

\* C5: with the event loop's steps taken fairly, every job that started
\* reaches done or failed, with processing back to false.
C5_JobTerminates ==
  (pc \in ActivePcs) ~> (Terminal /\ ~processing)

\* C6: a segment being played resolves once the position has reached the end
\* of its range, and also once the element is paused or has ended before that.
C6_SegmentResolves ==
  (pc = "playing" /\ (el.time >= seg.end \/ el.paused \/ el.ended))
    ~> (pc # "playing")

\* C7: once the user has closed the editor, the job in flight saves nothing,
\* starts no further segment, creates no further blob and records no more.
C7_CloseAborts ==
  [][closedByUser
       => /\ savedJobs' = savedJobs
          /\ videos' = videos
          /\ played' = played
          /\ tempMergeBlobs' = tempMergeBlobs
          /\ chunks' = chunks]_vars

\* C9: when a job has ended, its audio context is closed and its media element
\* source node is disconnected.
C9_AudioReleased ==
  Terminal => /\ audioCtx \in {"none", "closed"}
              /\ sourceNode # "connected"

\* C10: a pending load of a queue entry, fetch and element load together,
\* never lasts longer than the timeout.
C10_LoadBounded ==
  pc \in {"fetching", "loading"} => loadWait <= LoadTimeoutMs

\* C11: a media error reported while a segment is being started or played
\* makes the segment's play fail and the job end failed.
C11_PlaybackErrorFails ==
  (pc \in {"playStart", "playing"} /\ el.error) ~> (pc = "failed")

\* Queue entries of the job's snapshot that the lookup in allVideos finds.
FoundEntries ==
  {k \in 1..Len(snap.mergeQueue) : snap.mergeQueue[k] \in snap.allVideos}

\* C13: when the recorder has stopped at finalize, no chunk fails the job
\* with the no-data error, a blob under MinBlobSize fails it with the
\* too-small error, and otherwise the job's blob goes to onSave, once; no
\* job's blob is handed to onSave twice.
C13_FinalizeOutcome ==
  [][/\ (pc = "stopping" /\ pc' # "stopping")
        => IF chunks' = <<>>
             THEN /\ pc' = "failed" /\ errorMessage' = "noData"
                  /\ onSaveCalls' = onSaveCalls /\ videos' = videos
             ELSE IF SumSeq(chunks') < MinBlobSize
                    THEN /\ pc' = "failed" /\ errorMessage' = "tooSmall"
                         /\ onSaveCalls' = onSaveCalls /\ videos' = videos
                    ELSE /\ pc' = "done"
                         /\ onSaveCalls' = onSaveCalls + 1
                         /\ jobNo \notin savedJobs /\ jobNo \in savedJobs'
                         /\ "edited" \in videos'
     /\ onSaveCalls' # onSaveCalls
        => /\ onSaveCalls' = onSaveCalls + 1
           /\ recJob \notin savedJobs
           /\ savedJobs' = savedJobs \cup {recJob}]_vars

\* C13 witness: a job reached finalize with one chunk under the threshold
\* and failed with the too-small error, nothing saved.
C13_Witness ==
  /\ pc = "failed"
  /\ errorMessage = "tooSmall"
  /\ chunks # <<>>
  /\ onSaveCalls = 0

\* The job is in its queue loop: fetching, loading or playing a queue entry.
QueueStage ==
  \/ pc \in {"fetching", "loading"}
  \/ pc \in {"playStart", "seeking", "playing"} /\ seg.label # MainSeg

\* C14: a job that fails outside the queue loop (preparing, main segment,
\* finalizing) leaves failedQueueIndices empty.
C14_NoIndexFlagged ==
  [][(failedJobs' # failedJobs /\ ~QueueStage)
       => failedQueueIndices' = {}]_vars

\* C14 witness: with a non-empty queue the main segment's play() was
\* rejected; the job failed and no index is flagged.
C14_Witness ==
  /\ pc = "failed"
  /\ errorMessage = "processingFailed"
  /\ played = <<MainSeg>>
  /\ snap.mergeQueue # <<>>
  /\ recorder = "recording"
  /\ failedQueueIndices = {}

\* C15: recorder.stop() is called only from the settle delay, after every
\* segment of the job has been played and with no frame loop running, and
\* once per job: after the stop the job only ends.
C15_StopOnlyInFinalizing ==
  [][/\ (pc' = "stopping" /\ pc # "stopping")
        => /\ pc = "settling"
           /\ recorder = "recording" /\ recorder' = "inactive"
           /\ ~rafPending /\ el.paused
           /\ Len(played) = 1 + Cardinality(FoundEntries)
     /\ (pc = "stopping") => (pc' \in {"stopping", "done", "failed"})
     /\ (pc \in {"done", "failed"} /\ jobNo' = jobNo) => (pc' = pc)]_vars

\* C15 witness: the recorder was stopped after the main clip and two queue
\* entries were played.
C15_Witness ==
  /\ pc = "stopping"
  /\ recorder = "inactive"
  /\ Len(played) = 3

\* Position of a call in the preparation log (0 when it was not made).
LogPos(name) ==
  IF \E k \in 1..Len(setupLog) : setupLog[k] = name
    THEN CHOOSE k \in 1..Len(setupLog) : setupLog[k] = name
    ELSE 0

\* C16: a job that created its capture stream had drawn a frame onto the
\* processing canvas before, and a job that started its first segment had
\* started the recorder before.
C16_DrawBeforeCapture ==
  /\ LogPos("captureStream") > 0
       => (LogPos("drawImage") > 0
           /\ LogPos("drawImage") < LogPos("captureStream"))
  /\ LogPos("playSegment") > 0
       => (LogPos("recorderStart") > 0
           /\ LogPos("recorderStart") < LogPos("playSegment")
           /\ LogPos("captureStream") < LogPos("recorderStart"))
  /\ (pc \in {"playStart", "seeking", "playing"})
       => (recorder # "none" /\ LogPos("playSegment") > 0)

\* C16 witness: a second job drew its frame and captured the canvas, then
\* failed at the tap of the element; no segment was started.
C16_Witness ==
  /\ jobNo = 2
  /\ pc = "failed"
  /\ setupLog = <<"drawImage", "captureStream">>

\* C17: once the duration is known, the plan keeps
\* 0 <= trimStart < trimEnd <= duration with at least MinTrim between them.
C17_TrimInvariant ==
  duration >= MinTrim
    => /\ 0 <= trimStart
       /\ trimStart < trimEnd
       /\ trimEnd <= duration
       /\ trimEnd - trimStart >= MinTrim

\* Queue positions (1-based) of the job's snapshot whose id the lookup in
\* allVideos does not find.
AbsentEntries == (1..Len(snap.mergeQueue)) \ FoundEntries

\* C12: a queue entry whose id is absent from the clip collection is neither
\* fetched, loaded, played nor flagged, and the job renders the entries that
\* are found, in queue order, all of them before it finalizes.
C12_AbsentSkipped ==
  /\ QueueStage => (i + 1) \in FoundEntries
  /\ (recJob = jobNo)
       => /\ \A k \in 2..Len(played) :
               /\ played[k].kind = "queue"
               /\ (played[k].idx + 1) \in FoundEntries
               /\ k > 2 => played[k - 1].idx < played[k].idx
          /\ (pc \in ActivePcs \cup {"failed"})
               => \A k \in AbsentEntries : (k - 1) \notin failedQueueIndices
          /\ (pc \in {"settling", "stopping", "done"})
               => Len(played) = 1 + Cardinality(FoundEntries)

\* C12 witness: the queue held the dropped clip and then a present one; the
\* job skipped the first, rendered the second and completed.
C12_Witness ==
  /\ pc = "done"
  /\ snap.mergeQueue = <<ExtraClip, "a">>
  /\ ExtraClip \notin snap.allVideos
  /\ played = <<MainSeg, QueueSeg(1)>>
  /\ failedQueueIndices = {}

\* C18: a job started on a plan with trimEnd <= trimStart never starts a
\* recorder or a segment and delivers nothing.
C18_DegenerateRejected ==
  (jobNo > 0 /\ snap.trimEnd <= snap.trimStart)
    => /\ pc \in {"resuming", "failed"}
       /\ recJob # jobNo
       /\ jobNo \notin savedJobs

\* C19: an edit of the plan (trim, caption, queue) made while a job is in
\* flight changes nothing of what the job renders: not its snapshot, not the
\* segment being played or the segments played, and not the position of
\* the element whose frames it records.
C19_SnapshotReadOnly ==
  [][(active > 0 /\ edits' # edits)
       => /\ snap' = snap /\ seg' = seg /\ played' = played
          /\ i' = i /\ pc' = pc
          /\ el' = el]_vars

C26_FirstSupportedType ==
  mimeType # "unset"
    => /\ (mimeType = "") = (Range(types) \cap supported = {})
       /\ mimeType # ""
            => \E k \in 1..Len(types) :
                 /\ types[k] = mimeType
                 /\ mimeType \in supported
                 /\ \A h \in 1..(k - 1) : types[h] \notin supported

\* C26 witness: a platform without vp9 and vp8 that supports webm and mp4
\* gets webm.
C26_Witness ==
  /\ supported = {"video/webm", "video/mp4", "audio/webm"}
  /\ mimeType = "video/webm"
\* The content of the job's plan in ms: the trimmed main clip and the queue
\* clips the job renders.
ContentMs ==
  UnitMs * ((snap.trimEnd - snap.trimStart) + ClipDur * Cardinality(FoundEntries))

\* C21: the output of a completed job on a valid plan lasts as long as the
\* plan's content, the trimmed main clip plus the queue clips rendered, give
\* or take one frame interval; waiting for clips and the settle delay add
\* nothing to it.
C21_OutputDuration ==
  (pc = "done" /\ recJob = jobNo /\ snap.trimStart < snap.trimEnd)
    => /\ recMs - ContentMs <= FrameMs
       /\ ContentMs - recMs <= FrameMs

\* C27: a frame on the processing canvas starts with the source frame; text
\* is drawn only for a non-empty caption, and then as one stroke followed by
\* one fill of that caption at the same position; a frame composited for a
\* segment with an empty caption is the source frame alone.
C27_StrokeThenFill ==
  /\ Len(canvas) \in {0, 1, 3}
  /\ Len(canvas) >= 1 => canvas[1].op = "drawImage"
  /\ Len(canvas) = 3
       => /\ canvas[2].op = "strokeText" /\ canvas[3].op = "fillText"
          /\ canvas[2].text # "" /\ canvas[3].text = canvas[2].text
          /\ canvas[3].x = canvas[2].x /\ canvas[3].y = canvas[2].y
          /\ canvas[2].x = width \div 2 /\ canvas[2].y < height
  /\ rafPending
       => IF seg.text = "" THEN Len(canvas) = 1
          ELSE Len(canvas) = 3 /\ canvas[2].text = seg.text

\* C27 witness: a frame of a captioned main segment was composited.
C27_Witness ==
  /\ rafPending
  /\ seg.label = MainSeg /\ seg.text = "caption"
  /\ Len(canvas) = 3
\* C22: never more than one queue position is flagged; a flag is there only
\* after a job failed, and it is the position at which that job stopped.
C22_OneFlag ==
  /\ Cardinality(failedQueueIndices) <= 1
  /\ failedQueueIndices # {}
       => (pc = "failed" /\ failedQueueIndices = {i})

\* C22 witness: a first job failed, and the second job failed at the second
\* queue position, which is the only one flagged.
C22_Witness ==
  /\ failedJobs = {1, 2}
  /\ pc = "failed"
  /\ failedQueueIndices = {1}
\* C23: while a queue position is flagged, an error message is shown, and
\* the queue shows at that position the entry at which the latest job failed.
C23_FlagMarksFailedEntry ==
  \A k \in failedQueueIndices :
    /\ errorMessage # "null"
    /\ pc = "failed" /\ k = i
    /\ k < Len(mergeQueue)
    /\ mergeQueue[k + 1] = snap.mergeQueue[k + 1]
\* C24: once a job that created a recorder has ended, done or failed, that
\* recorder is inactive, so that no chunk is appended after the job.
C24_RecorderInactiveAfterJob ==
  (Terminal /\ recJob = jobNo) => recorder = "inactive"
\* C25: when starting a segment moves the element by more than SeekEps,
\* play() is not called while that seek is pending: a step that calls play()
\* on an element with no seek pending leaves none pending.
C25_SeekBeforePlay ==
  [][(pc' = "playStart" /\ pc # "playStart" /\ ~el.seeking)
       => ~el'.seeking]_vars
\* C28: every id in the merge queue is a clip other than the main clip with
\* the main clip's aspect ratio, whatever was added and removed.
C28_QueueCompatible ==
  \A k \in 1..Len(mergeQueue) :
    /\ mergeQueue[k] # MainId
    /\ aspectRatio(mergeQueue[k]) = aspectRatio(MainId)

\* C28 witness: the same compatible clip was added twice while the history
\* also holds a clip of the other aspect ratio.
C28_Witness ==
  /\ mergeQueue = <<"a", "a">>
  /\ PortraitClip \in videos

\* C29: while a job is in flight, no user action (trim inputs and sliders,
\* preview play/pause, queue and caption edits) changes the element's
\* position, its play state or its source.
C29_ElementOwnedByJob ==
  [][(pc \in ActivePcs /\ edits' # edits)
       => /\ el'.time = el.time
          /\ el'.paused = el.paused
          /\ el'.src = el.src]_vars

C31_FreshJobAfterFailure ==
  [][(pc = "failed" /\ jobNo' = jobNo + 1)
       => /\ ~processing
          /\ (pc' # "failed"
                => errorMessage' = "null" /\ failedQueueIndices' = {})
          /\ recorder # "recording"
          /\ sourceNode # "connected"]_vars

\* C32: once the editor is unmounted, the blob URL its source-loading
\* effect created for the main clip has been revoked.
C32_MainBlobRevoked ==
  ~mounted => ~mainBlobLive

\* C33: a metadata event of the element sets duration and trimEnd only when
\* it is the first one of the main source (duration still 0); the events of
\* queue clips bound during an export and of the main source restored
\* afterwards leave duration, trimStart and trimEnd as they are.
C33_DurationSetOnce ==
  [][(~el.ready /\ el'.ready)
       => /\ trimStart' = trimStart
          /\ IF duration = 0 /\ mounted
               THEN /\ el'.src = MainSrc
                    /\ duration' = el'.dur
                    /\ trimEnd' = el'.dur
               ELSE /\ duration' = duration
                    /\ trimEnd' = trimEnd]_vars

\* C33 witness: a job played a queue clip and failed afterwards, the main
\* source was restored and has loaded again, and the plan still has the
\* main clip's duration.
C33_Witness ==
  /\ pc = "failed"
  /\ Len(played) = 2
  /\ el.src = MainSrc /\ el.ready
  /\ mounted
  /\ duration = MainDur /\ trimEnd = MainDur

\* C34 as stated: generateVideoRaw returns a result only after a poll has
\* reported the operation done, without error and with a URI; an operation
\* that is not done is waited for and polled again; an operation error or a
\* missing URI is thrown.
C34_ResultAfterPoll ==
  /\ gen.raw = "returned"
       => /\ gen.polls >= 1
          /\ gen.op.done /\ ~gen.op.error /\ gen.op.uri
  /\ (gen.op.done /\ (gen.op.error \/ ~gen.op.uri)) => gen.raw = "thrown"
  /\ gen.pc \in {"delay", "polling"} => (~gen.op.done /\ gen.raw = "none")

\* C34, amended: the result is returned only when the operation last
\* received, from the submit or from a poll, is done, without error and with
\* a URI; the rest as stated.
C34_ResultOnlyWhenDone ==
  /\ gen.raw = "returned"
       => (gen.op.done /\ ~gen.op.error /\ gen.op.uri)
  /\ (gen.op.done /\ (gen.op.error \/ ~gen.op.uri)) => gen.raw = "thrown"
  /\ gen.pc \in {"delay", "polling"} => (~gen.op.done /\ gen.raw = "none")

\* C34 witness: a result was returned after the second poll reported done.
C34_Witness ==
  /\ gen.raw = "returned"
  /\ gen.polls = 2
  /\ gen.op.done

\* C35: a generation run that has started leaves 'generating' eventually.
C35_RunEnds ==
  (status = "generating") ~> (status \in {"completed", "error"})

\* C36: status is 'generating' exactly while a handleGenerate invocation is
\* in flight; it changes only from idle, completed or error to generating
\* with the start of a run, and from generating to completed or error; no
\* run starts while it is generating; the refusal for a missing API key
\* leaves it as it is.
C36_StatusProtocol ==
  [][/\ (status' = "generating") = (gen'.pc # "idle")
     /\ status' # status
          => \/ /\ status \in {"idle", "completed", "error"}
                /\ status' = "generating"
                /\ gen'.runs = gen.runs + 1
             \/ /\ status = "generating"
                /\ status' \in {"completed", "error"}
     /\ gen'.runs # gen.runs => status # "generating"
     /\ (Blank(userApiKey) /\ error' = "apiKeyMissing")
          => (status' = status /\ gen' = gen)]_vars

\* C36 witness: a second run is in flight after the first one ended.
C36_Witness ==
  /\ gen.runs = 2
  /\ status = "generating"
  /\ gen.pc = "polling"

\* C37: in a bulk run the scenes attempted so far are the first k prompts
\* that are not blank, in scene order, each once; when the run has ended
\* every such scene was attempted, the videos added are the scenes that did
\* not fail, one each, and the status is 'completed'.
C37_BulkAttemptsAll ==
  (gen.tab = "bulk" /\ gen.runs > 0 /\ gen.pc # "started" /\ gen.scenes # <<>>)
    => /\ \A k \in 1..NumScenes :
            (k \in Range(gen.scenes)) = ~Blank(bulkPrompts[k])
       /\ \A a, b \in 1..Len(gen.scenes) : a < b => gen.scenes[a] < gen.scenes[b]
       /\ gen.attempts = SubSeq(gen.scenes, 1, gen.k)
       /\ gen.failed \subseteq Range(gen.attempts)
       /\ Cardinality(videos) = gen.made
       /\ gen.pc = "idle"
            => /\ gen.k = Len(gen.scenes)
               /\ gen.added = Len(gen.scenes) - Cardinality(gen.failed)
               /\ status = "completed"

\* C37 witness: a bulk run of scenes 1 and 3 ended 'completed' with scene 1
\* failed and scene 3 added.
C37_Witness ==
  /\ gen.tab = "bulk" /\ gen.pc = "idle"
  /\ gen.attempts = <<1, 3>>
  /\ gen.failed = {1}
  /\ gen.added = 1
  /\ status = "completed"

\* C38: the reference image list never holds more than 3 images.
C38_AtMostThreeImages ==
  Len(referenceImages) <= MaxReferenceImages

\* C39: a step in which saveToDisk fails, in a generation run or after the
\* editor's save, leaves the video in the history (the run adds it in that
\* step, the editor's is there already), does not set the status to
\* 'error', and clears the directory handle when the failure is a
\* permission error.
C39_SaveFailureIsSoft ==
  [][/\ (gen.pc \in {"saveFetch", "saveWrite"} /\ gen'.save \in SaveFailures)
          => /\ gen'.added = gen.added + 1
             /\ Cardinality(videos') = Cardinality(videos) + 1
             /\ status' \in {"generating", "completed"}
             /\ IsPermissionError(gen'.save) => outputDirHandle' = "null"
     /\ (editSave \in {"fetch", "write"} /\ editSave' \in SaveFailures)
          => /\ "edited" \in videos'
             /\ videos' = videos
             /\ status' = status
             /\ IsPermissionError(editSave') => outputDirHandle' = "null"]_vars

\* C39 witness: a single generation whose save was refused with
\* NotAllowedError ended 'completed' with its video added and the handle
\* cleared, and the editor's save failed on the network afterwards.
C39_Witness ==
  /\ gen.save = "NotAllowedError"
  /\ gen.added = 1
  /\ status = "completed"
  /\ editSave = "network"
  /\ "edited" \in videos
====
